---- MODULE Spec2Model ----
(***************************************************************************)
(* Model of the poker-odds equity engine                                   *)
(* (crates/poker-odds-backend/src/solver.rs and lib.rs).                   *)
(*                                                                         *)
(* Conventions.                                                            *)
(*  - A u64 card mask is the set of its set bit positions (card indices    *)
(*    0..51, index = value*4 - 8 + suit).                                  *)
(*  - A 16-lane SIMD comparison bitmask is the set of its true lanes; for  *)
(*    a non-zero mask 64 - leading_zeros is Top(mask) + 1.                 *)
(*  - Text is a sequence of Unicode code points.                           *)
(*  - An f32 probability is the exact rational [n, d] it rounds; NaN is    *)
(*    [n |-> 0, d |-> 0].  The code fixes the order of every sum, so       *)
(*    rounding is a function of the operands and never of the schedule.    *)
(*  - One step of a search thread is one access to the shared DashMap      *)
(*    (get or insert) together with the thread-local code that follows it. *)
(***************************************************************************)
EXTENDS Integers, Sequences, FiniteSets, TLC

\* ------------------------------------------------------------------ bounds
\* Solves issued through the model in one behaviour.
MaxSolves == 2
\* Longest text handed to Card::from_string in the parsing specification.
MaxTextLen == 2
MaxRanks == 3

\* ------------------------------------------------------- program constants
NCARDS == 52
NTHREADS == 8

HighCard == 0
Pair == 1
TwoPair == 2
Trips == 3
Straight == 4
Flush == 5
FullHouse == 6
Quads == 7
StraightFlush == 8
RoyalFlush == 9

Clubs == 0
Hearts == 1
Spades == 2
Diamonds == 3

\* ------------------------------------------------------------ small helpers
Max(S) == CHOOSE x \in S : \A y \in S : y <= x
Min(S) == CHOOSE x \in S : \A y \in S : x <= y
\* Highest set bit of a mask, -1 for the empty mask (63 - leading_zeros).
Top(S) == IF S = {} THEN -1 ELSE Max(S)

RECURSIVE GCD(_, _)
GCD(a, b) == IF b = 0 THEN a ELSE GCD(b, a % b)

\* ------------------------------------------------------------- f32 values
NaN == [n |-> 0, d |-> 0]
IsNaN(x) == x.d = 0
Frac(n, d) == LET g == GCD(n, d) IN [n |-> n \div g, d |-> d \div g]
Zero == [n |-> 0, d |-> 1]
One == [n |-> 1, d |-> 1]
\* a + b
FAdd(a, b) ==
    IF IsNaN(a) \/ IsNaN(b) THEN NaN
    ELSE Frac(a.n * b.d + b.n * a.d, a.d * b.d)
\* a / k for a count k; 0.0 / 0 is NaN, x / 0 is +inf (d = 0 as well).
FDiv(a, k) ==
    IF IsNaN(a) \/ k = 0 THEN NaN
    ELSE Frac(a.n, a.d * k)

\* ------------------------------------------------------------------- text
\* char as u8: the low 8 bits of the code point.
AsU8(cp) == cp % 256
\* Bytes of the UTF-8 encoding of one code point (str::split_at counts bytes).
Utf8Len(cp) == IF cp < 128 THEN 1 ELSE IF cp < 2048 THEN 2 ELSE IF cp < 65536 THEN 3 ELSE 4

\* Suits::from_char on a char made from a u8: -1 stands for the panic.
SuitsFromChar(b) ==
    CASE b = 99 -> Clubs
      [] b = 104 -> Hearts
      [] b = 115 -> Spades
      [] b = 100 -> Diamonds
      [] OTHER -> -1

\* The value match of Card::from_string: -1 stands for the panic.
ValueFromU8(b) ==
    CASE b = 65 -> 14
      [] b = 75 -> 13
      [] b = 81 -> 12
      [] b = 74 -> 11
      [] b = 84 -> 10
      [] b \in 50..57 -> b - 48
      [] OTHER -> -1

\* Card::new with the offset 4 in place of 8.
CardNewOffsetFour(value, suit) ==
    [value |-> value, suit |-> suit, idx |-> value * 4 - 4 + suit]

\* Card::new: idx = value * 4 - 8 + position of the suit.
CardNew(value, suit) == [value |-> value, suit |-> suit, idx |-> value * 4 - 8 + suit]

PanicCard == [value |-> 0, suit |-> 0, idx |-> -1]
IsCard(c) == c.idx >= 0

\* Card::from_string: s[0] and s[1] are read (out-of-range index panics), the
\* rest of the text is ignored.
CardFromString(s) ==
    IF Len(s) < 1 THEN PanicCard
    ELSE LET value == ValueFromU8(AsU8(s[1])) IN
         IF value = -1 THEN PanicCard
         ELSE IF Len(s) < 2 THEN PanicCard
         ELSE LET suit == SuitsFromChar(AsU8(s[2])) IN
              IF suit = -1 THEN PanicCard ELSE CardNew(value, suit)

\* The text of one card, as the callers type it.
ValueChar(v) ==
    CASE v = 14 -> 65 [] v = 13 -> 75 [] v = 12 -> 81 [] v = 11 -> 74 [] v = 10 -> 84
      [] OTHER -> v + 48
SuitChar(s) == CASE s = 0 -> 99 [] s = 1 -> 104 [] s = 2 -> 115 [] OTHER -> 100
CardText(i) == <<ValueChar(i \div 4 + 2), SuitChar(i % 4)>>

\* ------------------------------------------------------------ Hand (l.128)
LANES == 13
\* count_ones of cards & (0xF << 4*i): the cards of value i + 2.
LaneCount(cards, i) == Cardinality({c \in cards : c \div 4 = i})
\* The lanes 0..12 whose count satisfies a comparison (simd_eq / simd_ge / simd_ne).
LanesEq(cards, k) == {i \in 0..(LANES - 1) : LaneCount(cards, i) = k}
LanesGe(cards, k) == {i \in 0..(LANES - 1) : LaneCount(cards, i) >= k}

\* Every predicate returns [hit, kicker, panic]: kicker is the hand's kicker
\* field after the call (unchanged when the predicate does not write it).
Miss(k) == [hit |-> FALSE, kicker |-> k, panic |-> FALSE]
Hit(k) == [hit |-> TRUE, kicker |-> k, panic |-> FALSE]
Panicked(k) == [hit |-> FALSE, kicker |-> k, panic |-> TRUE]

\* Hand::is_royal_flush: T..A of one suit; it never writes the kicker.
IsRoyalFlush(cards, k) ==
    IF \E x \in 0..3 : {32 + x, 36 + x, 40 + x, 44 + x, 48 + x} \subseteq cards
    THEN Hit(k) ELSE Miss(k)

\* The lanes with the ace of clubs in the wheel of every suit (aces never
\* shifted).
SFWindowClubAce(w, x) ==
    IF w = 0 THEN {x, 4 + x, 8 + x, 12 + x, 48}
    ELSE {4 * (w - 1) + 4 * j + x : j \in 0..4}

\* Lane w of regs in is_straight_flush_simd for suit x: lane 0 is the wheel
\* (2..5 and the ace of the suit), lane w the window whose high card is w + 5.
SFWindow(w, x) ==
    IF w = 0 THEN {x, 4 + x, 8 + x, 12 + x, 48 + x}
    ELSE {4 * (w - 1) + 4 * j + x : j \in 0..4}

SFMask(cards, x) == {w \in 0..8 : SFWindow(w, x) \subseteq cards}
\* Hand::is_straight_flush_simd: the first suit with a matching lane decides.
IsStraightFlushSimd(cards, k) ==
    LET suits == {x \in 0..3 : SFMask(cards, x) # {}} IN
    IF suits = {} THEN Miss(k)
    ELSE Hit(Top(SFMask(cards, Min(suits))) + 1)

\* Hand::is_quads_simd
IsQuadsSimd(cards, k) ==
    LET mask == LanesEq(cards, 4) IN
    IF mask = {} THEN Miss(k) ELSE Hit(Top(mask) + 1)

\* Hand::is_fullhouse_simd
IsFullhouseSimd(cards, k) ==
    LET eq3 == LanesEq(cards, 3)
        ge2 == LanesGe(cards, 2)
    IN  IF eq3 = {} THEN Miss(k)
        ELSE LET shift_eq3 == Top(eq3)
                 rest == ge2 \ {shift_eq3}
             IN  IF rest = {} THEN Miss(k)
                 ELSE Hit(shift_eq3 * 100 + Top(rest))

\* Hand::is_flush_simd: the highest suit with five cards; the kicker is the
\* bit position of its highest card plus one.
IsFlushSimd(cards, k) ==
    LET mask == {d \in 0..3 : Cardinality({c \in cards : c % 4 = d}) >= 5} IN
    IF mask = {} THEN Miss(k)
    ELSE LET d == Top(mask)
             cmask == {c \in cards : c % 4 = d}
         IN  Hit(Top(cmask) + 1)

\* Hand::is_straight_simd: bit v - 1 for value v, bit 0 for the low ace; lane
\* i of ms (5..15) is the window of bits i - 5 .. i - 1.
StraightBits(cards) ==
    LET m == {i + 1 : i \in LanesGe(cards, 1)} IN
    IF 13 \in m THEN m \cup {0} ELSE m
IsStraightSimd(cards, k) ==
    LET mask == StraightBits(cards)
        z == {i \in 5..15 : (i - 5)..(i - 1) \subseteq mask}
    IN  IF z = {} THEN Miss(k) ELSE Hit(Top(z))

\* The same loop with the bound "0..=times".
RECURSIVE TakeTopInclusive(_, _, _)
TakeTopInclusive(tmp, val1, times) ==
    IF times = -1 THEN [tmp |-> tmp, panic |-> FALSE]
    ELSE IF val1 = {} THEN [tmp |-> tmp * 100, panic |-> TRUE]
    ELSE TakeTopInclusive(tmp * 100 + Top(val1) + 1, val1 \ {Top(val1)},
                          times - 1)

\* The loop "d = 64 - val1.leading_zeros(); tmp = tmp * 100 + d;
\* val1 ^= 1 << (d - 1)" run `times` times; d - 1 underflows on an empty val1.
RECURSIVE TakeTop(_, _, _)
TakeTop(tmp, val1, times) ==
    IF times = 0 THEN [tmp |-> tmp, panic |-> FALSE]
    ELSE IF val1 = {} THEN [tmp |-> tmp * 100, panic |-> TRUE]
    ELSE TakeTop(tmp * 100 + Top(val1) + 1, val1 \ {Top(val1)}, times - 1)

\* Hand::is_three_of_a_kind_simd
IsThreeOfAKindSimd(cards, k) ==
    LET val3 == LanesEq(cards, 3) IN
    IF val3 = {} THEN Miss(k)
    ELSE LET r == TakeTop(Top(val3) + 1, LanesEq(cards, 1), 2) IN
         IF r.panic THEN Panicked(k) ELSE Hit(r.tmp)

\* Hand::is_two_pair_simd
IsTwoPairSimd(cards, k) ==
    LET val2 == LanesEq(cards, 2) IN
    IF Cardinality(val2) < 2 THEN Miss(k)
    ELSE LET r == TakeTop(0, val2, 2) IN
         Hit(r.tmp * 100 + Top(LanesEq(cards, 1)) + 1)

\* Hand::is_pair_simd: the pair and two side cards.
IsPairSimd(cards, k) ==
    LET val2 == LanesEq(cards, 2) IN
    IF val2 = {} THEN Miss(k)
    ELSE LET r == TakeTop(Top(val2) + 1, LanesEq(cards, 1), 2) IN
         IF r.panic THEN Panicked(k) ELSE Hit(r.tmp)

\* Hand::compute_kicker_for_high_card: the five highest values held once, from
\* the ace down; with fewer than five the kicker field is left as it was.
RECURSIVE HighCardLoop(_, _, _, _, _)
HighCardLoop(cards, i, tmp, count, k) ==
    IF i = LANES THEN k
    ELSE LET one == LaneCount(cards, 12 - i) = 1
             t == IF one THEN tmp * 100 + 14 - i ELSE tmp
             n == IF one THEN count + 1 ELSE count
         IN  IF n = 5 THEN t ELSE HighCardLoop(cards, i + 1, t, n, k)
ComputeKickerForHighCard(cards, k) == HighCardLoop(cards, 0, 0, 0, k)

\* The chain with the straight tried before the flush.
RankChainStraightFirst(cards, k) ==
    LET ElseIf(rank, r, rest) ==
            IF r.hit \/ r.panic
            THEN [rank |-> rank, kicker |-> r.kicker, panic |-> r.panic]
            ELSE rest
    IN  ElseIf(RoyalFlush, IsRoyalFlush(cards, k),
        ElseIf(StraightFlush, IsStraightFlushSimd(cards, k),
        ElseIf(Quads, IsQuadsSimd(cards, k),
        ElseIf(FullHouse, IsFullhouseSimd(cards, k),
        ElseIf(Straight, IsStraightSimd(cards, k),
        ElseIf(Flush, IsFlushSimd(cards, k),
        ElseIf(Trips, IsThreeOfAKindSimd(cards, k),
        ElseIf(TwoPair, IsTwoPairSimd(cards, k),
        ElseIf(Pair, IsPairSimd(cards, k),
               [rank |-> HighCard,
                kicker |-> ComputeKickerForHighCard(cards, k),
                panic |-> FALSE])))))))))

\* The if-else chain of Hand::rank on a memo miss: [rank, kicker, panic].
\* ElseIf(rank, r, rest): the branch of the chain whose predicate returned r
\* (a predicate that panics unwinds out of the chain at this branch).
RankChain(cards, k) ==
    LET ElseIf(rank, r, rest) ==
            IF r.hit \/ r.panic
            THEN [rank |-> rank, kicker |-> r.kicker, panic |-> r.panic]
            ELSE rest
    IN  ElseIf(RoyalFlush, IsRoyalFlush(cards, k),
        ElseIf(StraightFlush, IsStraightFlushSimd(cards, k),
        ElseIf(Quads, IsQuadsSimd(cards, k),
        ElseIf(FullHouse, IsFullhouseSimd(cards, k),
        ElseIf(Flush, IsFlushSimd(cards, k),
        ElseIf(Straight, IsStraightSimd(cards, k),
        ElseIf(Trips, IsThreeOfAKindSimd(cards, k),
        ElseIf(TwoPair, IsTwoPairSimd(cards, k),
        ElseIf(Pair, IsPairSimd(cards, k),
               [rank |-> HighCard,
                kicker |-> ComputeKickerForHighCard(cards, k),
                panic |-> FALSE])))))))))

\* Hand::new: the hole cards, their mask, an empty memo and kicker 0.
HandNew(c1, c2) ==
    [hole |-> <<c1.idx, c2.idx>>, hole_b |-> {c1.idx, c2.idx},
     memo |-> <<>>, kicker |-> 0]

\* Hand::rank: [hand, rank, panic].  The memo maps the card key to the rank
\* alone; a memo hit returns it and leaves the kicker field untouched.
HandRank(hand, board) ==
    LET cards_key == hand.hole_b \cup board
        Insert(r) ==
            [hand |-> [hand EXCEPT !.memo = (cards_key :> r.rank) @@ hand.memo,
                                   !.kicker = r.kicker],
             rank |-> r.rank, panic |-> r.panic]
    IN  IF cards_key \in DOMAIN hand.memo
        THEN [hand |-> hand, rank |-> hand.memo[cards_key], panic |-> FALSE]
        ELSE Insert(RankChain(cards_key, hand.kicker))

\* ---------------------------------------------------------- parsing hands
\* str::split_at(2): the prefix of exactly two bytes; -1 when byte 2 is past
\* the end or inside a character (split_at panics).
RECURSIVE SplitAt(_, _, _)
SplitAt(s, k, bytes) ==
    IF bytes = 2 THEN k
    ELSE IF bytes > 2 \/ k = Len(s) THEN -1
    ELSE SplitAt(s, k + 1, bytes + Utf8Len(s[k + 1]))

\* Hand::from_string: [ok, hand].
HandFromString(s) ==
    LET k == SplitAt(s, 0, 0) IN
    IF k = -1 THEN [ok |-> FALSE]
    ELSE LET c1 == CardFromString(SubSeq(s, 1, k))
             c2 == CardFromString(SubSeq(s, k + 1, Len(s)))
         IN  IF IsCard(c1) /\ IsCard(c2)
             THEN [ok |-> TRUE, hand |-> HandNew(c1, c2)]
             ELSE [ok |-> FALSE]

\* The board loop of Solver::solve: one card per chunk of two characters.
RECURSIVE BoardFromString(_, _, _)
BoardFromString(bd, k, board) ==
    IF k > Len(bd) THEN [ok |-> TRUE, board |-> board]
    ELSE LET card == CardFromString(SubSeq(bd, k, IF k + 1 <= Len(bd) THEN k + 1 ELSE k)) IN
         IF IsCard(card) THEN BoardFromString(bd, k + 2, board \cup {card.idx})
         ELSE [ok |-> FALSE]

\* --------------------------------------------------------- BitSet (l.766)
\* add without the test of contains.
BitSetAddUnguarded(bs, i) ==
    [s |-> bs.s \cup {i}, length |-> bs.length + 1]
BitSetNew == [s |-> {}, length |-> 0]

BitSetAdd(bs, i) ==
    IF i \in bs.s THEN bs ELSE [s |-> bs.s \cup {i}, length |-> bs.length + 1]

BitSetRemove(bs, i) ==
    IF i \in bs.s THEN [s |-> bs.s \ {i}, length |-> bs.length - 1] ELSE bs

BitSetAddBoard(bs, board) ==
    [s |-> bs.s \cup board,
     length |-> bs.length + (Cardinality(board) - Cardinality(board \cap bs.s))]

\* ------------------------------------------------------- Brancher (l.805)
\* l.819-822: drawn.add of both hole cards of every hand.  BitSet::add counts
\* a card only when it is not yet in the set, so the adds leave the union of
\* the hole cards and the number of distinct cards in it.
AddHoles(bs, hands) ==
    LET holes == UNION {hands[k].hole_b : k \in DOMAIN hands}
        s == bs.s \cup holes
    IN  [s |-> s, length |-> bs.length + Cardinality(holes \ bs.s)]

\* Brancher::new, with the control state of the search added: `board` is the
\* board local of the running branch, `stack` the loops of the active branch
\* calls ([i, pb, e, top]; top marks the loop of a worker closure), `mode` what
\* the thread does next (a memo get on "enter", a memo insert on "insert").
BrancherNew(hands, board) ==
    [game |-> hands, hero |-> hands[1],
     drawn |-> BitSetAddBoard(AddHoles(BitSetNew, hands), board),
     board0 |-> board, board |-> board,
     stack |-> <<>>, mode |-> "enter", val |-> Zero]

NoBrancher == [mode |-> "none"]

\* *board -= 1 << card_idx on a u64: with the bit clear the subtraction
\* borrows from the next set bit above, or wraps when there is none.
BoardSub(board, i) ==
    IF i \in board THEN board \ {i}
    ELSE LET above == {b \in board : b > i} IN
         IF above = {} THEN board \cup i..63
         ELSE (board \ {Min(above)}) \cup i..(Min(above) - 1)

\* remove_from_end_of_board without its drawn.remove.
RemoveBoardOnly(b, i) ==
    [b EXCEPT !.board = BoardSub(b.board, i)]

\* Brancher::add_to_end_of_board / remove_from_end_of_board
AddToEndOfBoard(b, i) ==
    [b EXCEPT !.drawn = BitSetAdd(b.drawn, i), !.board = b.board \cup {i}]
RemoveFromEndOfBoard(b, i) ==
    [b EXCEPT !.drawn = BitSetRemove(b.drawn, i), !.board = BoardSub(b.board, i)]

\* l.852: the comparison of the hero with one villain.
BeatsKickerFirst(hero_rank, hero_kicker, v, kicker) ==
    hero_kicker > kicker \/ (hero_kicker = kicker /\ hero_rank > v)
BeatsKickerReversed(hero_rank, hero_kicker, v, kicker) ==
    hero_rank > v \/ (hero_rank = v /\ hero_kicker < kicker)
Beats(hero_rank, hero_kicker, v, kicker) ==
    hero_rank > v \/ (hero_rank = v /\ hero_kicker > kicker)

\* l.844-853: the villains in seat order, stopping at the first the hero does
\* not beat (Iterator::all); seat 1 of the sequence is the hero (hero_pos 0),
\* which the filter skips.  Every villain up to that one is ranked, which
\* writes its memo and kicker; vs lists [rank, kicker, beaten] of the ranked
\* villains (vs[j] is seat j + 1).
Villains(hands, hero_rank, hero_kicker, board) ==
    LET n == Len(hands)
        All(r) ==
            LET beaten == [i \in 2..n |->
                    Beats(hero_rank, hero_kicker, r[i].rank, r[i].hand.kicker)]
                stop == {i \in 2..n : r[i].panic \/ ~beaten[i]}
                last == IF stop = {} THEN n ELSE Min(stop)
            IN  [hands |-> [i \in 1..n |->
                               IF i >= 2 /\ i <= last THEN r[i].hand ELSE hands[i]],
                 beats_all |-> stop = {},
                 vs |-> [j \in 1..(last - 1) |->
                            [rank |-> r[j + 1].rank,
                             kicker |-> r[j + 1].hand.kicker,
                             beaten |-> beaten[j + 1]]],
                 panic |-> \E i \in stop : i = last /\ r[i].panic]
    IN  All([i \in 2..n |-> HandRank(hands[i], board)])

\* l.840-854: the showdown at a board of five cards.
Showdown(b) ==
    LET Terminal(h, v) ==
            [hero |-> h.hand, game |-> v.hands,
             val |-> IF v.beats_all THEN One ELSE Zero,
             panic |-> h.panic \/ v.panic,
             ev |-> [key |-> b.drawn.s, board |-> b.board, hero_rank |-> h.rank,
                     hero_kicker |-> h.hand.kicker, vs |-> v.vs,
                     val |-> IF v.beats_all THEN One ELSE Zero]]
        Against(h) ==
            Terminal(h, Villains(b.game, h.rank, h.hand.kicker, b.board))
    IN  Against(HandRank(b.hero, b.board))

NoEv == [key |-> {}, board |-> {}, hero_rank |-> 0, hero_kicker |-> 0,
         vs |-> <<>>, val |-> Zero]

\* The for loop of l.860 / l.889 from index `from`: the next undrawn card is
\* added and its branch call entered; past the last index the loop of branch
\* divides (l.868) and goes on to the insert, the loop of a worker returns pb.
Advance(b, from) ==
    LET f == b.stack[Len(b.stack)]
        cand == {j \in from..(f.e - 1) : j \notin b.drawn.s}
    IN  IF cand # {}
        THEN LET j == Min(cand) IN
             [AddToEndOfBoard(b, j) EXCEPT
                 !.stack[Len(b.stack)].i = j, !.mode = "enter"]
        ELSE IF f.top
        THEN [b EXCEPT !.stack = <<>>, !.mode = "done", !.val = f.pb]
        ELSE [b EXCEPT !.stack = SubSeq(b.stack, 1, Len(b.stack) - 1),
                       !.mode = "insert",
                       !.val = FDiv(f.pb, NCARDS - b.drawn.length)]

\* A branch call returns v to the loop that made it (l.863-864, l.892-893).
ReturnTo(b, v) ==
    IF b.stack = <<>> THEN [b EXCEPT !.mode = "done", !.val = v]
    ELSE LET f == b.stack[Len(b.stack)]
             b1 == [RemoveFromEndOfBoard(b, f.i) EXCEPT
                       !.stack[Len(b.stack)].pb = FAdd(f.pb, v)]
         IN  Advance(b1, f.i + 1)

\* branch without the lookup of l.836-838.
BranchStepNoLookup(b, m, e) ==
    IF b.mode = "enter"
    THEN IF Cardinality(b.board) = 5
         THEN LET AtFive(sd) ==
                      [b |-> [b EXCEPT !.hero = sd.hero, !.game = sd.game,
                                 !.mode = IF sd.panic THEN "panic" ELSE "insert",
                                 !.val = sd.val],
                       memo |-> m, ev |-> sd.ev]
              IN  AtFive(Showdown(b))
         ELSE [b |-> Advance([b EXCEPT !.stack = Append(b.stack,
                        [i |-> -1, pb |-> Zero, e |-> NCARDS, top |-> FALSE])], 0),
               memo |-> m, ev |-> e]
    ELSE [b |-> ReturnTo(b, b.val), memo |-> (b.drawn.s :> b.val) @@ m, ev |-> e]

\* Brancher::branch from its entry to its next access to the memo:
\* [b, memo, ev].
BranchStep(b, m, e) ==
    IF b.mode = "enter"
    THEN IF b.drawn.s \in DOMAIN m
         THEN [b |-> ReturnTo(b, m[b.drawn.s]), memo |-> m, ev |-> e]
         ELSE IF Cardinality(b.board) = 5
         THEN LET AtFive(sd) ==
                      [b |-> [b EXCEPT !.hero = sd.hero, !.game = sd.game,
                                 !.mode = IF sd.panic THEN "panic" ELSE "insert",
                                 !.val = sd.val],
                       memo |-> m, ev |-> sd.ev]
              IN  AtFive(Showdown(b))
         ELSE [b |-> Advance([b EXCEPT !.stack = Append(b.stack,
                        [i |-> -1, pb |-> Zero, e |-> NCARDS, top |-> FALSE])], 0),
               memo |-> m, ev |-> e]
    ELSE [b |-> ReturnTo(b, b.val), memo |-> (b.drawn.s :> b.val) @@ m, ev |-> e]

\* -------------------------------------------------------------- the inputs
\* The solves the model issues, written with the card names the callers type.
CardNames == <<
    "2c", "2h", "2s", "2d", "3c", "3h", "3s", "3d", "4c", "4h", "4s", "4d",
    "5c", "5h", "5s", "5d", "6c", "6h", "6s", "6d", "7c", "7h", "7s", "7d",
    "8c", "8h", "8s", "8d", "9c", "9h", "9s", "9d", "Tc", "Th", "Ts", "Td",
    "Jc", "Jh", "Js", "Jd", "Qc", "Qh", "Qs", "Qd", "Kc", "Kh", "Ks", "Kd",
    "Ac", "Ah", "As", "Ad">>
Ix(nm) == CHOOSE i \in 0..51 : CardNames[i + 1] = nm
Hd(a, b) == CardText(Ix(a)) \o CardText(Ix(b))
RECURSIVE Bd(_)
Bd(names) == IF names = <<>> THEN <<>> ELSE CardText(Ix(Head(names))) \o Bd(Tail(names))

Scenario1 ==
    [hands |-> <<
       Hd("2c", "2d"), Hd("9h", "8h"), Hd("2h", "2s"), Hd("3c", "3h"),
       Hd("3s", "3d"), Hd("4c", "4h"), Hd("4d", "5c"), Hd("5h", "5s"),
       Hd("5d", "6c"), Hd("6h", "6s"), Hd("6d", "7c"), Hd("7h", "7s"),
       Hd("7d", "8c"), Hd("8s", "8d"), Hd("9c", "9s"), Hd("9d", "Tc"),
       Hd("Ts", "Td"), Hd("Jc", "Js"), Hd("Jd", "Qc"), Hd("Qs", "Qd"),
       Hd("Kc", "Ks"), Hd("Kd", "Ac"), Hd("As", "Ad")>>,
     board |-> Bd(<<"Th", "Jh", "Qh">>)]

Scenario2 ==
    [hands |-> <<
       Hd("2c", "2d"), Hd("9h", "8h"), Hd("2h", "2s"), Hd("3c", "3h"),
       Hd("3s", "3d"), Hd("4c", "4h"), Hd("4d", "5c"), Hd("5h", "5s"),
       Hd("5d", "6c"), Hd("6h", "6s"), Hd("6d", "7c"), Hd("7h", "7s"),
       Hd("7d", "8c"), Hd("8s", "8d"), Hd("9c", "9s"), Hd("9d", "Tc"),
       Hd("Ts", "Td"), Hd("Jc", "Js"), Hd("Jd", "Qc"), Hd("Qs", "Qd"),
       Hd("Kc", "Ks"), Hd("Kd", "Ac")>>,
     board |-> Bd(<<"Th", "Jh", "Qh", "As", "Ad">>)]

Scenario3 ==
    [hands |-> <<
       Hd("2c", "2d"), Hd("9h", "3c")>>,
     board |-> Bd(<<"Th", "Jh", "Qh", "Kh">>)]

Scenario4 ==
    [hands |-> <<
       Hd("Ah", "Kh"), Hd("Kc", "Kd")>>,
     board |-> Bd(<<"2h", "3h", "7h", "8d", "9s">>)]

Scenario5 ==
    [hands |-> <<
       Hd("Kc", "Kd"), Hd("Ah", "Kh")>>,
     board |-> Bd(<<"2h", "3h", "7h", "8d", "9s">>)]

Scenario6 ==
    [hands |-> <<
       Hd("Ac", "9d"), Hd("Ad", "8c")>>,
     board |-> Bd(<<"Ah", "Ks", "Qd", "4c", "2h">>)]

Scenario7 ==
    [hands |-> <<
       Hd("5h", "3c"), Hd("5c", "5d")>>,
     board |-> Bd(<<"Kc", "Kd", "7c", "7d", "2h">>)]

Scenario8 ==
    [hands |-> <<
       Hd("Ac", "Ad"), Hd("Kc", "Kd")>>,
     board |-> Bd(<<"Kh", "Ks", "Kd">>)]

Scenario9 ==
    [hands |-> <<
       Hd("2c", "2h"), Hd("2s", "2d"), Hd("3c", "3h"), Hd("3s", "3d"),
       Hd("4c", "4h"), Hd("4s", "4d"), Hd("5c", "5h"), Hd("5s", "5d"),
       Hd("6c", "6h"), Hd("6s", "6d"), Hd("7c", "7h"), Hd("7s", "7d"),
       Hd("8c", "8h"), Hd("8s", "8d"), Hd("9c", "9h"), Hd("9s", "9d"),
       Hd("Tc", "Th"), Hd("Ts", "Td"), Hd("Jc", "Jh"), Hd("Js", "Jd"),
       Hd("Qc", "Qh"), Hd("Qs", "Qd"), Hd("Kc", "Kh"), Hd("Ks", "Kd")>>,
     board |-> Bd(<<>>)]

\* A hole-card text of three cards.
Scenario10 ==
    [hands |-> <<
       Hd("Ah", "Kh") \o CardText(Ix("Qd")), Hd("Kc", "Kd")>>,
     board |-> Bd(<<"2h", "3h", "7h", "8d", "9s">>)]

\* A board text of an odd number of characters.
Scenario11 ==
    [hands |-> <<
       Hd("Ah", "Kh"), Hd("Kc", "Kd")>>,
     board |-> Bd(<<"2h", "3h">>) \o <<55>>]

\* The hero's hole cards are on the board as well.
Scenario12 ==
    [hands |-> <<
       Hd("Ac", "Ad"), Hd("Kc", "Kd")>>,
     board |-> Bd(<<"Ac", "Ad", "Ah", "2s", "3s">>)]

\* One card twice in a hand, and in two hands.
Scenario13 ==
    [hands |-> <<
       Hd("Ac", "Ac"), Hd("Ac", "Kd")>>,
     board |-> Bd(<<"Ah", "Ad", "2h", "3s">>)]

\* The hands of Scenario1 and a 24th hand holding 4s twice: Kh and Ah are
\* undrawn.
Scenario14 ==
    [hands |-> Scenario1.hands \o <<Hd("4s", "4s")>>,
     board |-> Bd(<<"Th", "Jh", "Qh">>)]

\* No hand at all.
Scenario15 ==
    [hands |-> <<>>,
     board |-> Bd(<<"2h", "3h", "7h", "8d", "9s">>)]

\* A board of six cards with the hands of Scenario2: Kh and Ah are undrawn.
Scenario16 ==
    [hands |-> Scenario2.hands,
     board |-> Bd(<<"Th", "Jh", "Qh", "As", "Ad", "4s">>)]

Scenario(id) ==
    CASE id = 1 -> Scenario1 [] id = 2 -> Scenario2 [] id = 3 -> Scenario3
      [] id = 4 -> Scenario4 [] id = 5 -> Scenario5 [] id = 6 -> Scenario6
      [] id = 7 -> Scenario7 [] id = 8 -> Scenario8 [] id = 9 -> Scenario9
      [] id = 10 -> Scenario10 [] id = 11 -> Scenario11 [] id = 12 -> Scenario12
      [] id = 13 -> Scenario13 [] id = 14 -> Scenario14 [] id = 15 -> Scenario15
      [] id = 16 -> Scenario16

\* ---------------------------------------------------------------- the state
VARIABLES
    memo,      \* Solver.memo: the shared DashMap, drawn mask -> value
    pc,        \* "idle", "single" (branch on the caller's thread), "par"
               \* (workers running), "done", "panic"
    inp,       \* the input of the running solve (a scenario id)
    fresh,     \* the running solve came through lib.rs solve (a new Solver)
    main,      \* the Brancher of Solver::solve
    wk,        \* the local_brancher of every spawned worker, in handle order
    result,    \* the f32 the solve returns
    nsolves,   \* solves started
    log,       \* the solves that returned: [inp, fresh, result]
    ev,        \* the last showdown evaluated in the running solve
    inputs,    \* the scenario ids a behaviour draws from (fixed by Init)
    sched,     \* "any": workers interleave freely; "serial": they run one
               \* after the other in spawn order (fixed by Init)
    ptext,     \* parsing specification: the text given to Card::from_string
    pcard,     \* parsing specification: what Card::from_string returned
    bits,      \* BitSet specification: the BitSet before and after the last
               \* call on it, and that call
    hnd        \* Hand specification: one Hand, the board of the last call of
               \* rank on it and what the call returned

vars == <<memo, pc, inp, fresh, main, wk, result, nsolves, log, ev, inputs,
          sched, ptext, pcard, bits, hnd>>

PanicVal == [n |-> -1, d |-> -1]
NoHand == [op |-> "none"]
EmptyMemo == [k \in {} |-> Zero]

\* l.876-880: (0..52).step_by(52 / nthreads) and the end of each chunk.
Chunks(nthreads) ==
    LET step == NCARDS \div nthreads
        n == (NCARDS + step - 1) \div step
    IN  [k \in 1..n |->
            [s |-> (k - 1) * step,
             e |-> IF (k - 1) * step + step < NCARDS THEN (k - 1) * step + step
                   ELSE NCARDS]]

\* l.885-889: the clone a worker starts from, at the first card of its range.
SpawnWorker(b, c) ==
    Advance([b EXCEPT !.board = b.board0,
                      !.stack = <<[i |-> -1, pb |-> Zero, e |-> c.e, top |-> TRUE]>>],
            c.s)

Running(b) == b.mode \in {"enter", "insert"}

\* l.902-905: the partial sums added in handle order.
RECURSIVE SumPb(_, _)
SumPb(w, k) == IF k = 0 THEN Zero ELSE FAdd(SumPb(w, k - 1), w[k].val)

\* Solver::solve up to the first memo access of the search (parsing,
\* Brancher::new, the lookup of compute_equity, the spawn of the workers);
\* fr: the call comes through lib.rs solve, which makes a new Solver.
Call(id, fr) ==
    /\ pc = "idle"
    /\ nsolves < MaxSolves
    /\ id \in inputs
    /\ \E sc \in {Scenario(id)} :
       LET hs == [k \in 1..Len(sc.hands) |-> HandFromString(sc.hands[k])]
           bd == BoardFromString(sc.board, 1, {})
           m0 == IF fr THEN EmptyMemo ELSE memo
       IN  /\ memo' = m0
           /\ inp' = id
           /\ fresh' = fr
           /\ nsolves' = nsolves + 1
           /\ ev' = NoEv
           /\ IF (\E k \in 1..Len(sc.hands) : ~hs[k].ok) \/ ~bd.ok \/ sc.hands = <<>>
              THEN /\ pc' = "panic"
                   /\ result' = PanicVal
                   /\ main' = NoBrancher
                   /\ wk' = <<>>
              ELSE LET b == BrancherNew([k \in 1..Len(sc.hands) |-> hs[k].hand],
                                        bd.board)
                   IN  IF b.drawn.s \in DOMAIN m0
                       THEN /\ pc' = "done"
                            /\ result' = m0[b.drawn.s]
                            /\ main' = b
                            /\ wk' = <<>>
                       ELSE IF Cardinality(b.board0) >= 4
                       THEN /\ pc' = "single"
                            /\ result' = Zero
                            /\ main' = b
                            /\ wk' = <<>>
                       ELSE /\ pc' = "par"
                            /\ result' = Zero
                            /\ main' = b
                            /\ wk' = [k \in DOMAIN Chunks(NTHREADS) |->
                                         SpawnWorker(b, Chunks(NTHREADS)[k])]
    /\ UNCHANGED <<log, inputs, sched, ptext, pcard, bits, hnd>>

\* l.934-936: one step of branch on the caller's thread.
MainStep ==
    /\ pc = "single"
    /\ Running(main)
    /\ \E r \in {BranchStep(main, memo, ev)} :
       /\ main' = r.b
       /\ memo' = r.memo
       /\ ev' = r.ev
       /\ pc' = IF r.b.mode = "done" THEN "done"
                ELSE IF r.b.mode = "panic" THEN "panic" ELSE "single"
       /\ result' = IF r.b.mode = "done" THEN r.b.val
                    ELSE IF r.b.mode = "panic" THEN PanicVal ELSE result
    /\ UNCHANGED <<inp, fresh, wk, nsolves, log, inputs, sched, ptext, pcard, bits, hnd>>

\* l.886-898: one step of the closure of worker w.
WorkerStep(w) ==
    /\ pc = "par"
    /\ w \in DOMAIN wk
    /\ Running(wk[w])
    /\ sched = "serial" => \A v \in DOMAIN wk : Running(wk[v]) => w <= v
    /\ \E r \in {BranchStep(wk[w], memo, ev)} :
       /\ wk' = [wk EXCEPT ![w] = r.b]
       /\ memo' = r.memo
       /\ ev' = r.ev
    /\ UNCHANGED <<pc, inp, fresh, main, result, nsolves, log, inputs, sched,
                   ptext, pcard, bits, hnd>>

\* The sum taken and the root stored without waiting for the handles.
JoinEarly ==
    /\ pc = "par"
    /\ IF \E w \in DOMAIN wk : wk[w].mode = "panic"
       THEN /\ pc' = "panic"
            /\ result' = PanicVal
            /\ memo' = memo
       ELSE LET p == FDiv(SumPb(wk, Len(wk)), NCARDS - main.drawn.length) IN
            /\ pc' = "done"
            /\ result' = p
            /\ memo' = (main.drawn.s :> p) @@ memo
    /\ UNCHANGED <<inp, fresh, main, wk, nsolves, log, ev, inputs, sched,
                   ptext, pcard, bits, hnd>>

\* l.902-907 and l.939: every handle joined, the sum divided, the root stored.
Join ==
    /\ pc = "par"
    /\ \A w \in DOMAIN wk : ~Running(wk[w])
    /\ IF \E w \in DOMAIN wk : wk[w].mode = "panic"
       THEN /\ pc' = "panic"
            /\ result' = PanicVal
            /\ memo' = memo
       ELSE LET p == FDiv(SumPb(wk, Len(wk)), NCARDS - main.drawn.length) IN
            /\ pc' = "done"
            /\ result' = p
            /\ memo' = (main.drawn.s :> p) @@ memo
    /\ UNCHANGED <<inp, fresh, main, wk, nsolves, log, ev, inputs, sched,
                   ptext, pcard, bits, hnd>>

\* Solver::solve returns (or unwinds): the Brancher and its hands are dropped.
Return ==
    /\ pc \in {"done", "panic"}
    /\ pc' = "idle"
    /\ log' = Append(log, [inp |-> inp, fresh |-> fresh, result |-> result])
    /\ main' = NoBrancher
    /\ wk' = <<>>
    /\ UNCHANGED <<memo, inp, fresh, result, nsolves, ev, inputs, sched,
                   ptext, pcard, bits, hnd>>

Next ==
    \/ \E id \in inputs, fr \in BOOLEAN : Call(id, fr)
    \/ MainStep
    \/ \E w \in 1..(NTHREADS + 1) : WorkerStep(w)
    \/ Join
    \/ Return

InitSolver ==
    /\ memo = EmptyMemo
    /\ pc = "idle"
    /\ inp = 0
    /\ fresh = TRUE
    /\ main = NoBrancher
    /\ wk = <<>>
    /\ result = Zero
    /\ nsolves = 0
    /\ log = <<>>
    /\ ev = NoEv
    /\ ptext = <<>>
    /\ pcard = PanicCard
    /\ bits = [cur |-> BitSetNew, prev |-> BitSetNew, op |-> "new", arg |-> {}]
    /\ hnd = NoHand

Init ==
    /\ InitSolver
    /\ inputs = {1, 2, 3, 4, 5, 6, 7, 9}
    /\ sched = "any"

Spec == Init /\ [][Next]_vars

\* The solves whose search runs on the caller's thread (boards of four and
\* five cards), and the solve of 24 hands, whose workers find the deck spent.
InitShowdowns ==
    /\ InitSolver
    /\ inputs = {2, 3, 4, 5, 6, 7, 9}
    /\ sched = "any"

SpecShowdowns == InitShowdowns /\ [][Next]_vars

\* The solves of malformed texts, of overlapping cards and of boards that
\* cannot come to five cards.
InitInputs ==
    /\ InitSolver
    /\ inputs = {10, 11, 12, 13, 14, 15, 16}
    /\ sched = "any"

SpecInputs == InitInputs /\ [][Next]_vars

\* The solve of the board "KhKsKd": its 46 * 45 completions are searched with
\* the workers running one after the other in spawn order.
InitSerial ==
    /\ InitSolver
    /\ inputs = {4, 8}
    /\ sched = "serial"

SpecSerial == InitSerial /\ [][Next]_vars

\* ------------------------------------------------- Card::from_string alone
\* The characters the parsing specification draws from: '0' '1' '2' '9' 'A'
\* 'T' 'c' 'd' 'h' 's' 'x', U+0132 (low byte '2'), U+0141 (low byte 'A') and
\* U+0163 (low byte 'c').
ParseChars == {48, 49, 50, 57, 65, 84, 99, 100, 104, 115, 120, 306, 321, 355}
Texts == UNION {[1..n -> ParseChars] : n \in 0..MaxTextLen}

\* One call of Card::from_string on the text s.
ParseCard(s) ==
    /\ ptext' = s
    /\ pcard' = CardFromString(s)
    /\ UNCHANGED <<memo, pc, inp, fresh, main, wk, result, nsolves, log, ev,
                   inputs, sched, bits, hnd>>

ParseNext == \E s \in Texts : ParseCard(s)

InitParse ==
    /\ InitSolver
    /\ inputs = {}
    /\ sched = "any"

SpecParse == InitParse /\ [][ParseNext]_vars

\* ------------------------------------------------------ the BitSet alone
\* The indices the BitSet specification draws from.
BitIdx == {0, 1, 17, 50, 51}

\* One call on the BitSet: op names it, arg holds its index or is its mask.
BitSetCall(op, arg, after) ==
    /\ bits' = [cur |-> after, prev |-> bits.cur, op |-> op, arg |-> arg]
    /\ UNCHANGED <<memo, pc, inp, fresh, main, wk, result, nsolves, log, ev,
                   inputs, sched, ptext, pcard, hnd>>

BitSetNext ==
    \/ BitSetCall("new", {}, BitSetNew)
    \/ \E i \in BitIdx : BitSetCall("add", {i}, BitSetAdd(bits.cur, i))
    \/ \E i \in BitIdx : BitSetCall("remove", {i}, BitSetRemove(bits.cur, i))
    \/ \E mask \in SUBSET BitIdx :
          BitSetCall("add_board", mask, BitSetAddBoard(bits.cur, mask))

InitBitSet ==
    /\ InitSolver
    /\ inputs = {}
    /\ sched = "any"

SpecBitSet == InitBitSet /\ [][BitSetNext]_vars

\* -------------------------------------------------------- one Hand alone
\* The card of index i, and the set of the cards of the given names.
CardAt(i) == CardNew(i \div 4 + 2, i % 4)
Cards(names) == {Ix(names[k]) : k \in DOMAIN names}

\* The hole cards and the boards the Hand specification draws from: with
\* Ah Kh the boards give a flush, trips, a royal flush, a pair and a high
\* card; with 7c 7d a pair, a full house, a royal flush on the board, two
\* pair and a pair.
MemoHoles == {<<Ix("Ah"), Ix("Kh")>>, <<Ix("7c"), Ix("7d")>>}
MemoBoards ==
    {Cards(<<"2h", "3h", "7h", "8d", "9s">>),
     Cards(<<"Kc", "Kd", "2c", "3d", "7s">>),
     Cards(<<"Th", "Jh", "Qh", "2c", "3d">>),
     Cards(<<"Ts", "Js", "Qs", "Ks", "As">>),
     Cards(<<"2c", "2d", "4s", "6c", "9d">>)}

\* Hand::new on two cards.
HandCreate(c1, c2) ==
    /\ hnd' = [op |-> "new", hand |-> HandNew(CardAt(c1), CardAt(c2)),
               board |-> {}, rank |-> HighCard, panic |-> FALSE, calls |-> 0]
    /\ UNCHANGED <<memo, pc, inp, fresh, main, wk, result, nsolves, log, ev,
                   inputs, sched, ptext, pcard, bits>>

\* One more call of rank on the Hand.
HandRankCall(board) ==
    /\ hnd.op # "none"
    /\ ~hnd.panic
    /\ hnd.calls < MaxRanks
    /\ \E r \in {HandRank(hnd.hand, board)} :
          hnd' = [op |-> "rank", hand |-> r.hand, board |-> board,
                  rank |-> r.rank, panic |-> r.panic, calls |-> hnd.calls + 1]
    /\ UNCHANGED <<memo, pc, inp, fresh, main, wk, result, nsolves, log, ev,
                   inputs, sched, ptext, pcard, bits>>

HandMemoNext ==
    \/ \E h \in MemoHoles : HandCreate(h[1], h[2])
    \/ \E board \in MemoBoards : HandRankCall(board)

InitHand ==
    /\ InitSolver
    /\ inputs = {}
    /\ sched = "any"

SpecHandMemo == InitHand /\ [][HandMemoNext]_vars

\* What a Hand created anew from the hole cards of the Hand under test returns
\* for a board.
FreshRank(board) ==
    HandRank(HandNew(CardAt(hnd.hand.hole[1]), CardAt(hnd.hand.hole[2])), board)

\* ------------------------------------------- one rank of a Hand made anew
\* The hole cards the ranking specification draws from, each with the cards
\* its boards are made of: ten hearts with three off-suit low cards
\* (straights, flushes, straight flushes, the wheel with the ace of hearts and
\* with the ace of clubs), and nines, kings, deuces and fives with side cards
\* (pairs, two and three pairs, trips, two trips, full houses, quads).
HeartsPool ==
    Cards(<<"2h", "3h", "4h", "6h", "7h", "9h", "Th", "Jh", "Qh", "Kh",
            "2c", "3d", "4s">>)
PairsPool ==
    Cards(<<"9h", "9s", "Kc", "Kd", "Ks", "2c", "2d", "2s", "5c", "5d",
            "Jc", "3h">>)
RankCases ==
    {[hole |-> <<Ix("Ah"), Ix("5h")>>, pool |-> HeartsPool],
     [hole |-> <<Ix("Ac"), Ix("5h")>>, pool |-> HeartsPool],
     [hole |-> <<Ix("9c"), Ix("9d")>>, pool |-> PairsPool],
     [hole |-> <<Ix("Ah"), Ix("Qd")>>, pool |-> PairsPool]}
Boards(pool) == {b \in SUBSET pool : Cardinality(b) = 5}

\* Hand::new on two cards and one call of rank on the new Hand, the one Hand
\* of the behaviour; sf is what is_straight_flush_simd returns for the seven
\* cards on a new Hand.
RankFresh(c1, c2, board) ==
    /\ hnd.op = "none"
    /\ \E r \in {HandRank(HandNew(CardAt(c1), CardAt(c2)), board)} :
          hnd' = [op |-> "fresh", hand |-> r.hand, board |-> board,
                  rank |-> r.rank, panic |-> r.panic, calls |-> 1,
                  sf |-> IsStraightFlushSimd({c1, c2} \cup board, 0)]
    /\ UNCHANGED <<memo, pc, inp, fresh, main, wk, result, nsolves, log, ev,
                   inputs, sched, ptext, pcard, bits>>

RankNext ==
    \E c \in RankCases : \E board \in Boards(c.pool) :
        RankFresh(c.hole[1], c.hole[2], board)

SpecRank == InitHand /\ [][RankNext]_vars

\* ------------------------------------------------ what a fresh Solver returns
\* The hands and the board of an input as Solver::solve parses them.
ParsedHands(id) ==
    [k \in 1..Len(Scenario(id).hands) |-> HandFromString(Scenario(id).hands[k]).hand]
ParsedBoard(id) == BoardFromString(Scenario(id).board, 1, {}).board

\* lib.rs solve (a new Solver, an empty memo) on the hands of input id and its
\* board with the cards of `more` added, for a board of five cards: the lookup
\* of compute_equity misses, branch misses and evaluates the showdown, on
\* hands that were never ranked.
FreshTerminal(id, more) ==
    Showdown(BrancherNew(ParsedHands(id), ParsedBoard(id) \cup more)).val

\* The mean over every undrawn card c of the fresh solves of the board plus c,
\* for a board of four cards (each of them is 0.0 or 1.0).
FreshMean(id) ==
    LET b == BrancherNew(ParsedHands(id), ParsedBoard(id))
        undrawn == (0..(NCARDS - 1)) \ b.drawn.s
        wins == {c \in undrawn : FreshTerminal(id, {c}) = One}
    IN  FDiv(Frac(Cardinality(wins), 1), Cardinality(undrawn))

\* ------------------------------------------------ the standard hand ranking
\* The ranking of five-card hands the claims about wins and ties refer to:
\* the category first, then the values of the hand in order of significance
\* (more copies first, higher value first), as one number.
StdHand5(h) ==
    LET D == {c \div 4 : c \in h}
        cnt(v) == Cardinality({c \in h : c \div 4 = v})
        maxc == Max({cnt(v) : v \in D})
        flush == \E x \in 0..3 : \A c \in h : c % 4 = x
        wheel == D = {0, 1, 2, 3, 12}
        straight == Cardinality(D) = 5 /\ (wheel \/ Max(D) - Min(D) = 4)
        key(v) == cnt(v) * 13 + v
        pos(v) == Cardinality({u \in D : key(u) < key(v)})
        term(q) == IF q < Cardinality(D)
                   THEN (CHOOSE v \in D : pos(v) = q) * 13 ^ q ELSE 0
        cat == IF straight /\ flush THEN 8
               ELSE IF maxc = 4 THEN 7
               ELSE IF maxc = 3 /\ Cardinality(D) = 2 THEN 6
               ELSE IF flush THEN 5
               ELSE IF straight THEN 4
               ELSE IF maxc = 3 THEN 3
               ELSE IF maxc = 2 /\ Cardinality(D) = 3 THEN 2
               ELSE IF maxc = 2 THEN 1
               ELSE 0
    IN  cat * 13 ^ 5
        + (IF straight THEN (IF wheel THEN 3 ELSE Max(D))
           ELSE term(0) + term(1) + term(2) + term(3) + term(4))

\* The best five-card hand out of a set of cards.
StdBest(cards) ==
    Max({StdHand5(h) : h \in {x \in SUBSET cards : Cardinality(x) = 5}})

\* The last showdown of the running solve, with the seats of that solve.
AtShowdown == pc \in {"single", "par", "done"} /\ ev # NoEv
StdHero == StdBest(main.game[1].hole_b \cup ev.board)
StdSeat(i) == StdBest(main.game[i].hole_b \cup ev.board)

\* ------------------------------------------------------------------ claims
InUnit(x) == x.d > 0 /\ 0 <= x.n /\ x.n <= x.d

\* C1: every call of solve (a new Solver each, lib.rs) with the same hands and
\* the same board returns the same value, however the workers of
\* branch_parallel interleave.
C1_Determinism ==
    \A i, j \in DOMAIN log :
        (log[i].inp = log[j].inp /\ log[i].fresh /\ log[j].fresh)
            => log[i].result = log[j].result

\* C2: a solve on a Solver that served earlier solves returns what a fresh
\* Solver returns for the same hands and board.  Stated for the boards of five
\* cards, where the value a fresh Solver returns is a function of the input.
C2_CacheSound ==
    (pc = "done" /\ Cardinality(main.board0) = 5)
        => result = FreshTerminal(inp, {})

\* C3: a solve of a board of exactly five cards returns exactly 0.0 or 1.0,
\* also on a Solver whose memo holds entries of earlier solves.
C3_TerminalIdentity ==
    (pc = "done" /\ Cardinality(main.board0) = 5) => result \in {Zero, One}

\* C4: the value solve returns and every value stored in the shared memo lie
\* in [0.0, 1.0]; none is the result of a division by zero undrawn cards.
C4_Range ==
    /\ \A k \in DOMAIN memo : InUnit(memo[k])
    /\ pc = "done" => InUnit(result)

\* C5: at a showdown where some villain's best hand equals the hero's under
\* the standard ranking, the value of the board is 0.0.
C5_TiesNotWins ==
    AtShowdown =>
        ((\E i \in 2..Len(main.game) : StdSeat(i) = StdHero) => ev.val = Zero)

\* C6: the value of a board of five cards is 1.0 exactly when the hero's best
\* five-card hand strictly beats the best hand of every other seat under the
\* standard ranking, and 0.0 otherwise.
C6_OutrightWin ==
    AtShowdown =>
        /\ ev.val \in {Zero, One}
        /\ ev.val = One <=> \A i \in 2..Len(main.game) : StdHero > StdSeat(i)

\* C7: the value of solve(hands, board) is the arithmetic mean, over every
\* undrawn card c, of the value of solve(hands, board plus c).  Stated for the
\* boards of four cards, whose completions are boards of five cards.
C7_Conditioning ==
    (pc = "done" /\ fresh /\ Cardinality(main.board0) = 4)
        => result = FreshMean(inp)

\* C8 as the specification states it: the solve of ["AcAd", "KcKd"] with the
\* board "KhKsKd" returns exactly 0.0.
C8_ReturnsZero ==
    (pc = "done" /\ Scenario(inp) = Scenario8) => result = Zero

\* C8 amended: that solve returns (1/45 + 1/45) / 46 = 1/1035; the hero wins
\* on exactly one completion, the board with Ah and As added (quad aces
\* against quad kings), and on no other.
C8_QuadAces ==
    /\ (pc = "done" /\ Scenario(inp) = Scenario8) => result = Frac(2, 46 * 45)
    /\ (AtShowdown /\ Scenario(inp) = Scenario8)
           => (ev.val = One <=> ev.board = ParsedBoard(inp) \cup {Ix("Ah"), Ix("As")})

\* A fresh solve of that input has returned 1/1035.
C8_Solved ==
    pc = "done" /\ fresh /\ Scenario(inp) = Scenario8 /\ result = Frac(1, 1035)

\* C9: at a showdown the hero beats every villain of a strictly lower category
\* and no villain of a strictly higher one, whatever the two kickers; the
\* kickers decide only between equal categories; the categories are ordered
\* HighCard < Pair < TwoPair < Trips < Straight < Flush < FullHouse < Quads
\* < StraightFlush < RoyalFlush.
C9_RankOrder ==
    /\ HighCard < Pair /\ Pair < TwoPair /\ TwoPair < Trips /\ Trips < Straight
    /\ Straight < Flush /\ Flush < FullHouse /\ FullHouse < Quads
    /\ Quads < StraightFlush /\ StraightFlush < RoyalFlush
    /\ ev # NoEv =>
          \A j \in DOMAIN ev.vs :
              /\ ev.hero_rank > ev.vs[j].rank => ev.vs[j].beaten
              /\ ev.hero_rank < ev.vs[j].rank => ~ev.vs[j].beaten
              /\ ev.hero_rank = ev.vs[j].rank
                    => (ev.vs[j].beaten <=> ev.hero_kicker > ev.vs[j].kicker)

\* A showdown where the hero holds the higher category and the lower kicker,
\* and beats the villain.
C9_HigherRankLowerKicker ==
    /\ ev # NoEv
    /\ \E j \in DOMAIN ev.vs :
          /\ ev.hero_rank > ev.vs[j].rank
          /\ ev.hero_kicker < ev.vs[j].kicker
          /\ ev.vs[j].beaten

\* C10: Card::from_string produces a card only when the first character is one
\* of 2-9, T, J, Q, K, A and the second one of c, h, s, d.
C10_RejectsInvalid ==
    IsCard(pcard) =>
        /\ Len(ptext) >= 2
        /\ ptext[1] \in (50..57) \cup {84, 74, 81, 75, 65}
        /\ ptext[2] \in {99, 104, 115, 100}

\* The lengths a well-formed input has: four characters a hand, two characters
\* a board card, and no, three, four or five board cards.
WellFormedLength(id) ==
    /\ \A k \in 1..Len(Scenario(id).hands) : Len(Scenario(id).hands[k]) = 4
    /\ Len(Scenario(id).board) % 2 = 0
    /\ (Len(Scenario(id).board) \div 2) \in {0, 3, 4, 5}

\* Every hand text and the board text are taken by the parser.
Parses(id) ==
    /\ \A k \in 1..Len(Scenario(id).hands) :
          HandFromString(Scenario(id).hands[k]).ok
    /\ BoardFromString(Scenario(id).board, 1, {}).ok

\* Some card is in two hands, twice in a hand, or in a hand and on the board.
Overlapping(id) ==
    /\ Parses(id)
    /\ Cardinality(UNION {ParsedHands(id)[k].hole_b :
                              k \in 1..Len(ParsedHands(id))}
                   \cup ParsedBoard(id))
          # 2 * Len(Scenario(id).hands) + Cardinality(ParsedBoard(id))

\* C11: a solve whose hand text is not four characters long, or whose board text
\* is of odd length or of a card count other than 0, 3, 4 or 5, fails before
\* the search begins: no such solve is searching or has returned a value.
C11_MalformedLengthFatal ==
    pc \in {"single", "par", "done"} => WellFormedLength(inp)

\* C12: a solve whose input does not parse, or whose hole cards and board cards
\* are not pairwise disjoint, leaves the memo of the Solver as it was when the
\* solve was called: no step of such a solve inserts or changes an entry.
C12_ErrorsLeaveMemo ==
    [][(pc # "idle" /\ (~Parses(inp) \/ Overlapping(inp))) => memo' = memo]_vars

\* No thread of the solve has panicked.
NoPanic ==
    /\ pc # "panic"
    /\ main.mode # "panic"
    /\ \A w \in DOMAIN wk : wk[w].mode # "panic"

\* C13 as stated: every solve whose input parses with a board of at most five
\* distinct cards runs without a panic.
C13_ParsedNeverPanics ==
    (pc # "idle" /\ Parses(inp) /\ Cardinality(ParsedBoard(inp)) <= 5)
        => NoPanic

\* C13 amended: every solve of at least one hand whose input parses with a board
\* of at most five distinct cards runs without a panic, overlapping cards or
\* not: no underflow in the evaluator, no failed join.
C13_OverlapNeverPanics ==
    (pc # "idle" /\ Parses(inp) /\ Scenario(inp).hands # <<>>
        /\ Cardinality(ParsedBoard(inp)) <= 5)
        => NoPanic

\* A solve of overlapping cards has come to its value.
C13_OverlapSolved ==
    pc = "done" /\ Overlapping(inp) /\ result # PanicVal

\* A branch call of thread b is about to store the value of its loop although
\* the loop made no call: its board is not of five cards and no card is left
\* to add.
DeadEnd(b) ==
    /\ b.mode = "insert"
    /\ Cardinality(b.board) # 5
    /\ b.drawn.length = NCARDS

\* C14: in every solve of an input the parser accepts, every branch call comes to
\* a board of exactly five cards or to a memo hit (no call runs out of cards
\* on another board), and the solve returns a probability.
C14_Completion ==
    /\ ~DeadEnd(main)
    /\ \A w \in DOMAIN wk : ~DeadEnd(wk[w])
    /\ pc = "done" => ~IsNaN(result)

\* C15: within one solve, an insertion for a drawn-card key the memo already
\* holds carries the value already stored, whichever thread makes it.
C15_BenignRace ==
    [][pc # "idle" =>
          \A k \in DOMAIN memo : k \in DOMAIN memo' => memo'[k] = memo[k]]_vars

\* Brancher::branch run to its return on one thread: the steps of BranchStep
\* from brancher b with memo m, one after the other.
RECURSIVE BranchToEnd(_, _, _)
BranchToEnd(b, m, e) ==
    IF ~Running(b) THEN b
    ELSE LET Go(r) == BranchToEnd(r.b, r.memo, r.ev)
         IN  Go(BranchStep(b, m, e))

\* The value branch returns from the root of input id with an empty memo.
SequentialValue(id) ==
    BranchToEnd(BrancherNew(ParsedHands(id), ParsedBoard(id)), EmptyMemo, NoEv).val

\* The ranges of the workers hold every card index once.
RangesPartition ==
    \A i \in 0..(NCARDS - 1) :
        Cardinality({k \in DOMAIN Chunks(NTHREADS) :
                        Chunks(NTHREADS)[k].s <= i /\ i < Chunks(NTHREADS)[k].e}) = 1

\* C16: the value a parallel solve on an empty memo returns is the value the
\* single-threaded branch returns from the same root on an empty memo, and the
\* ranges of the workers hold every card index once.
C16_ParallelIsSequential ==
    /\ RangesPartition
    /\ (pc = "done" /\ fresh /\ wk # <<>>) => result = SequentialValue(inp)

\* The cards the active branch calls of thread b have added: one for each loop
\* on its stack.
Added(b) == {b.stack[k].i : k \in 1..Len(b.stack)}

\* Thread b at the entry of a branch call, or at its return value ("insert"
\* after a showdown or after the loop, "done" at the return of the outermost
\* call): the board is the root board and the cards added by the calls still
\* active, the drawn set is the hole cards and that board, and its length is
\* its number of cards.  The calls active at the entry of a call and at its
\* return are the same, so this board and this drawn set are the same too.
Restored(b) ==
    b.mode \in {"enter", "insert", "done"} =>
        /\ Cardinality(Added(b)) = Len(b.stack)
        /\ Added(b) \cap b.board0 = {}
        /\ b.board = b.board0 \cup Added(b)
        /\ b.drawn.s = UNION {b.game[k].hole_b : k \in DOMAIN b.game} \cup b.board
        /\ b.drawn.length = Cardinality(b.drawn.s)

\* C17: at the entry of every branch call and at its return the board and the
\* drawn BitSet (bits and length) are those of the calls still active, hence at
\* the return what they were at the entry; and at every entry the drawn set is
\* the union of the hole cards and the board.
C17_BacktrackRestores ==
    /\ main.mode # "none" => Restored(main)
    /\ \A w \in DOMAIN wk : Restored(wk[w])

\* A thread is at the return of a branch call whose loop has added and taken
\* back at least one card.
C17_LoopReturned ==
    \E b \in {main} \cup {wk[w] : w \in DOMAIN wk} :
        /\ b.mode = "insert"
        /\ Cardinality(b.board) < 5
        /\ b.drawn.length < NCARDS

\* Thread b (b2 after the step) has handed v to the caller of its branch call:
\* to the code that called the outermost branch, or added to the pb of the
\* loop that made the call, which goes on or ends.
Returned(b, b2, v) ==
    IF b.stack = <<>> THEN b2.mode = "done" /\ b2.val = v
    ELSE LET f == b.stack[Len(b.stack)]
             sum == FAdd(f.pb, v)
         IN  \/ /\ b2.mode = "enter"
                /\ Len(b2.stack) = Len(b.stack)
                /\ b2.stack[Len(b.stack)].pb = sum
             \/ f.top /\ b2.mode = "done" /\ b2.val = sum
             \/ /\ ~f.top
                /\ b2.mode = "insert"
                /\ Len(b2.stack) = Len(b.stack) - 1
                /\ b2.val = FDiv(sum, NCARDS - Cardinality(b2.drawn.s))

\* A step of thread b at the entry of a branch call whose key the memo holds:
\* the stored value is returned, no hand is ranked, no entry is written.
HitReturns(b, b2) ==
    (b.mode = "enter" /\ b.drawn.s \in DOMAIN memo /\ b2 # b) =>
        /\ memo' = memo
        /\ ev' = ev
        /\ b2.game = b.game /\ b2.hero = b.hero
        /\ Returned(b, b2, memo[b.drawn.s])

\* A call of solve on a Solver whose memo holds the root key: the stored value
\* is the result, no worker is spawned, the memo is as it was.
RootHitReturns ==
    (pc = "idle" /\ pc' \notin {"idle", "panic"} /\ ~fresh'
        /\ main'.drawn.s \in DOMAIN memo) =>
        /\ pc' = "done"
        /\ result' = memo[main'.drawn.s]
        /\ wk' = <<>>
        /\ memo' = memo
        /\ ev' = NoEv
        /\ main'.mode = "enter" /\ main'.stack = <<>>

\* C18: a branch call, at any depth, and compute_equity at the root, whose
\* drawn-card key has an entry in the memo returns the stored value without
\* ranking a hand, adding a card, spawning a worker or writing the memo.
C18_MemoShortCircuit ==
    [][/\ RootHitReturns
       /\ pc = "single" => HitReturns(main, main')
       /\ pc = "par" => \A w \in DOMAIN wk : HitReturns(wk[w], wk'[w])]_vars

\* A worker is at the entry of a branch call two cards below the root whose
\* key another worker has stored.
C18_HitAtDepth ==
    /\ pc = "par"
    /\ \E w \in DOMAIN wk :
          /\ wk[w].mode = "enter"
          /\ Len(wk[w].stack) = 2
          /\ wk[w].drawn.s \in DOMAIN memo

\* C19: branch_parallel(nthreads) makes exactly nthreads index ranges and one
\* worker for each, so a parallel solve runs exactly NTHREADS workers.
C19_WorkerCount ==
    pc = "par" => Len(Chunks(NTHREADS)) = NTHREADS /\ Len(wk) = NTHREADS

\* C20: workers exist only in a solve whose board has fewer than four cards and
\* whose root key the memo did not hold (a solve of four or more board cards
\* has none); while a worker runs the solve has no value and the memo has no
\* entry for the root; no worker is left when the solve has returned.
C20_WorkerLifetime ==
    /\ wk # <<>> => /\ pc \in {"par", "done", "panic"}
                   /\ Cardinality(main.board0) < 4
    /\ pc = "single" => wk = <<>> /\ Cardinality(main.board0) >= 4
    /\ pc = "par" => wk # <<>> /\ main.drawn.s \notin DOMAIN memo
    /\ (\E w \in DOMAIN wk : Running(wk[w])) =>
          pc = "par" /\ main.drawn.s \notin DOMAIN memo
    /\ pc = "idle" => wk = <<>>

\* A parallel solve has joined its workers, stored the root and has its value.
C20_Joined ==
    /\ pc = "done"
    /\ wk # <<>>
    /\ \A w \in DOMAIN wk : wk[w].mode = "done"
    /\ main.drawn.s \in DOMAIN memo
    /\ result = memo[main.drawn.s]

\* C21: after every sequence of new, add, remove and add_board the length of
\* the BitSet is the number of bits of s; add and remove change the length by
\* one exactly when the presence of the index changes, and add_board raises it
\* by the number of bits of the mask that were not set.
C21_BitSetLength ==
    /\ bits.cur.length = Cardinality(bits.cur.s)
    /\ bits.op = "add" =>
          /\ bits.cur.s = bits.prev.s \cup bits.arg
          /\ bits.cur.length =
                bits.prev.length + (IF bits.arg \subseteq bits.prev.s THEN 0 ELSE 1)
    /\ bits.op = "remove" =>
          /\ bits.cur.s = bits.prev.s \ bits.arg
          /\ bits.cur.length =
                bits.prev.length - (IF bits.arg \subseteq bits.prev.s THEN 1 ELSE 0)
    /\ bits.op = "add_board" =>
          /\ bits.cur.s = bits.prev.s \cup bits.arg
          /\ bits.cur.length =
                bits.prev.length + Cardinality(bits.arg \ bits.prev.s)

\* add_board has been called with a mask of which some bits were set and some
\* were not.
C21_MixedMaskAdded ==
    /\ bits.op = "add_board"
    /\ bits.arg \cap bits.prev.s # {}
    /\ bits.arg \ bits.prev.s # {}
    /\ Cardinality(bits.cur.s) >= 4

\* C22: after every call of rank on a Hand, the rank returned and the kicker
\* field of the Hand are those a Hand created anew from the same hole cards
\* yields for that board, also when the Hand's memo answers the call.
C22_MemoReturnsFullResult ==
    (hnd.op = "rank" /\ ~hnd.panic) =>
        /\ hnd.rank = FreshRank(hnd.board).rank
        /\ hnd.hand.kicker = FreshRank(hnd.board).hand.kicker

\* The seven cards of the last call of rank.
RankedCards == hnd.hand.hole_b \cup hnd.board

\* The highest of the ten categories that five of the given cards make, under
\* the standard ranking (an ace-high straight flush is the royal flush).
StdCategory(cards) ==
    LET Cat(best) ==
            IF best \div 13 ^ 5 = StraightFlush /\ best % 13 ^ 5 = 12
            THEN RoyalFlush ELSE best \div 13 ^ 5
    IN  Cat(StdBest(cards))

\* C23: for seven distinct cards rank on a new Hand returns the highest category
\* that some five of the seven cards make.
C23_Category ==
    (hnd.op = "fresh" /\ Cardinality(RankedCards) = 7) =>
        /\ ~hnd.panic
        /\ hnd.rank = StdCategory(RankedCards)

\* Seven cards that hold a straight and a flush but no straight flush have been
\* ranked, and seven cards that hold trips and a pair.
C23_FlushOverStraight ==
    /\ hnd.op = "fresh"
    /\ hnd.rank = Flush
    /\ IsStraightSimd(RankedCards, 0).hit
    /\ IsFlushSimd(RankedCards, 0).hit

\* The lane of the third highest value held once.
ThirdSide(cards) ==
    LET val1 == LanesEq(cards, 1) IN
    Top((val1 \ {Top(val1)}) \ {Top(val1 \ {Top(val1)})})

\* The given cards with the card of their third highest single value replaced
\* by card c.
ThirdSideReplaced(cards, c) ==
    {x \in cards : x \div 4 # ThirdSide(cards)} \cup {c}

\* C24: of two Pair hands with the same pair and the same two highest side
\* cards, the one with the higher third side card has the strictly greater
\* kicker: replacing the third side card of a Pair hand by a card of a lower
\* value not in the hand, where that leaves a Pair, lowers the kicker.
C24_PairThirdKicker ==
    (hnd.op = "fresh" /\ hnd.rank = Pair /\ Cardinality(RankedCards) = 7) =>
        \A c \in (0..(NCARDS - 1)) \ RankedCards :
            (/\ c \div 4 < ThirdSide(RankedCards)
             /\ LaneCount(RankedCards, c \div 4) = 0
             /\ RankChain(ThirdSideReplaced(RankedCards, c), 0).rank = Pair)
                => RankChain(ThirdSideReplaced(RankedCards, c), 0).kicker
                       < hnd.hand.kicker

\* The values (2..14) the given cards hold in suit x, and the high cards 5..13
\* of the windows of five consecutive values that suit x holds, the ace being
\* the low card of the window of high card 5.
SuitValues(cards, x) == {c \div 4 + 2 : c \in {d \in cards : d % 4 = x}}
SuitWindows(cards, x) ==
    {h \in 5..13 :
        \A v \in (h - 4)..h :
            (IF v = 1 THEN 14 ELSE v) \in SuitValues(cards, x)}
AllWindows(cards) == UNION {SuitWindows(cards, x) : x \in 0..3}

\* C25 as stated: is_straight_flush_simd holds exactly when some suit holds a
\* window of five consecutive values from king-high down to the wheel (with
\* the ace of that suit), and the kicker is then the high card of the highest
\* window held, 13 down to 5.
C25_KickerIsHighCard ==
    hnd.op = "fresh" =>
        /\ hnd.sf.hit <=> AllWindows(RankedCards) # {}
        /\ hnd.sf.hit => hnd.sf.kicker = Max(AllWindows(RankedCards))

\* C25 amended: is_straight_flush_simd holds exactly when some suit holds such
\* a window, and the kicker is then the high card of the highest window held
\* less 4: 9 for king-high down to 1 for the wheel.
C25_StraightFlush ==
    hnd.op = "fresh" =>
        /\ hnd.sf.hit <=> AllWindows(RankedCards) # {}
        /\ hnd.sf.hit => hnd.sf.kicker = Max(AllWindows(RankedCards)) - 4

\* The wheel of hearts with the ace of hearts has been found a straight flush.
C25_WheelFound ==
    /\ hnd.op = "fresh"
    /\ hnd.sf.hit
    /\ AllWindows(RankedCards) = {5}
    /\ hnd.rank = StraightFlush

\* Card::new maps the 52 pairs of a value 2..14 and a suit one-to-one onto
\* 0..51, by (value - 2) * 4 + the rank of the suit.
IndexBijection ==
    /\ Clubs = 0 /\ Hearts = 1 /\ Spades = 2 /\ Diamonds = 3
    /\ \A v \in 2..14, x \in 0..3 : CardNew(v, x).idx = (v - 2) * 4 + x
    /\ {CardNew(v, x).idx : v \in 2..14, x \in 0..3} = 0..(NCARDS - 1)
    /\ \A v, w \in 2..14, x, y \in 0..3 :
          CardNew(v, x).idx = CardNew(w, y).idx => v = w /\ x = y

\* The masks of thread b have no bit above 51, and the loops of its branch
\* calls are at indices below 52.
InDeck(b) ==
    /\ \A k \in DOMAIN b.game : b.game[k].hole_b \subseteq 0..(NCARDS - 1)
    /\ b.hero.hole_b \subseteq 0..(NCARDS - 1)
    /\ b.board0 \subseteq 0..(NCARDS - 1)
    /\ b.board \subseteq 0..(NCARDS - 1)
    /\ b.drawn.s \subseteq 0..(NCARDS - 1)
    /\ \A k \in DOMAIN b.stack :
          b.stack[k].i \in -1..(NCARDS - 1) /\ b.stack[k].e <= NCARDS

\* C26: Card::new is a bijection of the 52 cards onto 0..51, and in every state
\* of a solve the hole masks, the board, the drawn set and the keys of the memo
\* have bits 0..51 only and every index the search adds or tests is below 52.
C26_IndexBijection ==
    /\ IndexBijection
    /\ main.mode # "none" => InDeck(main)
    /\ \A w \in DOMAIN wk : InDeck(wk[w])
    /\ \A key \in DOMAIN memo : key \subseteq 0..(NCARDS - 1)

\* The worker of the last range has added a card of index 48 or more, with the
\* card of index 51 in the drawn set.
C26_LastRangeSearched ==
    \E w \in DOMAIN wk :
        /\ wk[w].mode = "enter"
        /\ wk[w].stack[1].e = NCARDS
        /\ wk[w].stack[1].i >= 48
        /\ 51 \in wk[w].drawn.s

====
